---- MODULE Spec2Model ----
(***************************************************************************)
(* Model of src/main.py: the control loop of the environmental monitoring  *)
(* node.  One cycle of main_loop is split at its numbered stages           *)
(* (1. commands, 2.-3. sensors and telemetry, 4. fan, 4. LED, 5. sleep);   *)
(* the program counter pc names the stage that runs next.                  *)
(*                                                                         *)
(* Optional values (Python None) are sequences of length at most one:      *)
(* None is <<>> and a present value v is <<v>>.  Temperatures are in       *)
(* tenths of a degree Celsius, so that 30.0 is 300.                        *)
(***************************************************************************)
EXTENDS Integers, Sequences, FiniteSets

VARIABLES
    pc,                   \* stage of main_loop that runs next
    auto_fan_enabled,     \* global, line 29
    led_enabled,          \* global, line 30
    last_sent_temp,       \* global, line 24
    last_sent_humid,      \* global, line 25
    last_sent_pm2_5,      \* global, line 26
    temp,                 \* local of main_loop, line 146
    humid,                \* local of main_loop, line 146
    pm2_5,                \* local of main_loop, line 147
    air_quality_digital,  \* local of main_loop, line 148
    gpio,                 \* output level of every configured output pin
    response,             \* answer of requests.get, line 105, not yet processed
    posts,                \* the requests.post calls of the telemetry stage just run
    several,              \* history: the response just applied held several directives
    manual_fan,           \* history: level a manual fan directive set this cycle
    manual_over_auto,     \* history: that directive arrived with auto-fan enabled
    observed,             \* history: metrics read present at least once
    delivered,            \* history: metrics the backend answered 201 for
    status,               \* parameter of the set_led call running or just returned
    led_i,                \* pin writes the running set_led call has made
    led_before,           \* history: the outputs lit when that call was entered
    dht_device,           \* global, lines 50 and 54
    ser                   \* global, lines 51 and 55

vars == <<pc, auto_fan_enabled, led_enabled, last_sent_temp, last_sent_humid,
          last_sent_pm2_5, temp, humid, pm2_5, air_quality_digital, gpio,
          response, posts, several, manual_fan, manual_over_auto,
          observed, delivered, status, led_i, led_before, dht_device, ser>>

----------------------------------------------------------------------------
(* Configuration, lines 12-34 *)

FAN_PIN == 18
LED_PINS == [good |-> 27, moderate |-> 22, bad |-> 23, off |-> -1]
LedNames == DOMAIN LED_PINS
AUTO_FAN_TEMP_THRESHOLD == 300
AUTO_FAN_PM25_THRESHOLD == 75

LOW == 0
HIGH == 1

None == <<>>
Some(v) == <<v>>

LedPins == {LED_PINS[n] : n \in {m \in LedNames : LED_PINS[m] # -1}}
OutputPins == LedPins \cup {FAN_PIN}

----------------------------------------------------------------------------
(* Bounds of the environment *)

MaxCommands == 2

TempValues == {299, 300}
HumidValues == {40, 41}
PmValues == {34, 35, 75}
GasValues == {0, 1}

Metrics == {"temperature", "humidity", "pm25"}

(* A directive of the command source: {target, action, source?}; an absent *)
(* key reads as "none" (dict.get returns None).                            *)
Directive(t, a, s) == [target |-> t, action |-> a, source |-> s]
NoCommand == Directive("none", "none", "none")
Directives ==
    { Directive("led", "on", "none"),
      Directive("led", "off", "none"),
      Directive("autoFan", "enable", "none"),
      Directive("autoFan", "disable", "none"),
      Directive("fan", "on", "user"),
      Directive("fan", "off", "user"),
      Directive("fan", "on", "auto"),
      Directive("fan", "on", "none"),
      Directive("autoFan", "on", "none"),
      Directive("buzzer", "on", "user") }

CommandLists == UNION {[1..n -> Directives] : n \in 0..MaxCommands}

(* What requests.get(CONTROL_API_URL) can give: a 200 answer with a list   *)
(* of directives, another status, a transport error, or a body that is no  *)
(* list of directives.                                                     *)
Responses ==
    {[kind |-> "ok", commands |-> cs] : cs \in CommandLists}
    \cup {[kind |-> k, commands |-> <<>>] :
              k \in {"bad_status", "network_error", "malformed"}}

NoResponse == [kind |-> "none", commands |-> <<>>]

(* What requests.post(BACKEND_API_URL) can give: status 201, another       *)
(* status, or a RequestException.                                          *)
PostResults == {"created", "rejected", "unreachable"}

----------------------------------------------------------------------------
(* Actuator drivers *)

control_fan(g, state) == [g EXCEPT ![FAN_PIN] = IF state THEN HIGH ELSE LOW]

(* the pin levels a whole set_led call leaves *)
set_led(g, st) ==
    IF st = "off"
    THEN [p \in DOMAIN g |-> IF p \in LedPins THEN LOW ELSE g[p]]
    ELSE [p \in DOMAIN g |->
            IF p \in LedPins
            THEN (IF LED_PINS[st] = p THEN HIGH ELSE LOW)
            ELSE g[p]]

(* LED_PINS in the order of the dict literal of line 14, the order in     *)
(* which both loops of set_led visit it                                   *)
LedOrder == <<"good", "moderate", "bad", "off">>

(* the entries for which the loops write a pin (pin != -1) *)
LedWrites == SelectSeq(LedOrder, LAMBDA n : LED_PINS[n] # -1)

(* variant: the 'off' branch of set_led is missing *)
set_led_write_no_off(g, st, name) ==
    IF st = "off" THEN g
    ELSE [g EXCEPT ![LED_PINS[name]] = IF name = st THEN HIGH ELSE LOW]

(* variant: only the named output is written, the others are left alone *)
set_led_write_named_only(g, st, name) ==
    IF st = "off" THEN [g EXCEPT ![LED_PINS[name]] = LOW]
    ELSE [g EXCEPT ![LED_PINS[name]] = IF name = st THEN HIGH ELSE g[LED_PINS[name]]]

(* one GPIO.output of set_led: the write for the entry `name`, line 89 in *)
(* the 'off' branch and line 92 otherwise                                 *)
set_led_write(g, st, name) ==
    IF st = "off" THEN [g EXCEPT ![LED_PINS[name]] = LOW]
    ELSE [g EXCEPT ![LED_PINS[name]] = IF name = st THEN HIGH ELSE LOW]

FanOn == gpio[FAN_PIN] = HIGH
Lit == {n \in LedNames : LED_PINS[n] # -1 /\ gpio[LED_PINS[n]] = HIGH}

----------------------------------------------------------------------------
(* Command interpreter, apply_latest_commands *)

ControlState ==
    [auto_fan_enabled |-> auto_fan_enabled,
     led_enabled |-> led_enabled,
     gpio |-> gpio]

IsManualFan(cmd) == cmd.target = "fan" /\ cmd.source = "user"

(* variant: a manual fan directive drives the fan but leaves auto mode on *)
apply_command_keeps_auto(latest, st) ==
    IF latest.target = "led"
    THEN [st EXCEPT !.led_enabled = (latest.action = "on")]
    ELSE IF latest.target = "autoFan"
    THEN [st EXCEPT !.auto_fan_enabled = (latest.action = "enable")]
    ELSE IF latest.target = "fan" /\ latest.source = "user"
    THEN [st EXCEPT !.gpio = control_fan(st.gpio, latest.action = "on")]
    ELSE st

(* variant: "on" and "enable" are taken as synonyms *)
apply_command_synonyms(latest, st) ==
    IF latest.target = "led"
    THEN [st EXCEPT !.led_enabled = (latest.action \in {"on", "enable"})]
    ELSE IF latest.target = "autoFan"
    THEN [st EXCEPT !.auto_fan_enabled = (latest.action \in {"on", "enable"})]
    ELSE IF latest.target = "fan" /\ latest.source = "user"
    THEN [st EXCEPT !.auto_fan_enabled = FALSE,
                    !.gpio = control_fan(st.gpio, latest.action = "on")]
    ELSE st

(* variant: a fan directive is applied whatever its source *)
apply_command_any_source(latest, st) ==
    IF latest.target = "led"
    THEN [st EXCEPT !.led_enabled = (latest.action = "on")]
    ELSE IF latest.target = "autoFan"
    THEN [st EXCEPT !.auto_fan_enabled = (latest.action = "enable")]
    ELSE IF latest.target = "fan"
    THEN [st EXCEPT !.auto_fan_enabled = FALSE,
                    !.gpio = control_fan(st.gpio, latest.action = "on")]
    ELSE st

(* variant: an action other than "on" toggles the indicator *)
apply_command_toggle(latest, st) ==
    IF latest.target = "led"
    THEN [st EXCEPT !.led_enabled =
                        IF latest.action = "on" THEN TRUE ELSE ~st.led_enabled]
    ELSE IF latest.target = "autoFan"
    THEN [st EXCEPT !.auto_fan_enabled = (latest.action = "enable")]
    ELSE IF latest.target = "fan" /\ latest.source = "user"
    THEN [st EXCEPT !.auto_fan_enabled = FALSE,
                    !.gpio = control_fan(st.gpio, latest.action = "on")]
    ELSE st

(* variant: disabling auto-fan also stops the fan at once *)
apply_command_disable_stops_fan(latest, st) ==
    IF latest.target = "led"
    THEN [st EXCEPT !.led_enabled = (latest.action = "on")]
    ELSE IF latest.target = "autoFan"
    THEN [st EXCEPT !.auto_fan_enabled = (latest.action = "enable"),
                    !.gpio = IF latest.action = "enable" THEN st.gpio
                             ELSE control_fan(st.gpio, FALSE)]
    ELSE IF latest.target = "fan" /\ latest.source = "user"
    THEN [st EXCEPT !.auto_fan_enabled = FALSE,
                    !.gpio = control_fan(st.gpio, latest.action = "on")]
    ELSE st

apply_command(latest, st) ==
    IF latest.target = "led"
    THEN [st EXCEPT !.led_enabled = (latest.action = "on")]
    ELSE IF latest.target = "autoFan"
    THEN [st EXCEPT !.auto_fan_enabled = (latest.action = "enable")]
    ELSE IF latest.target = "fan" /\ latest.source = "user"
    THEN [st EXCEPT !.auto_fan_enabled = FALSE,
                    !.gpio = control_fan(st.gpio, latest.action = "on")]
    ELSE st

(* variant: the last directive of the list is applied (commands[-1]) *)
apply_latest_commands_last(resp, st) ==
    IF resp.kind # "ok" THEN st
    ELSE IF resp.commands = <<>> THEN st
    ELSE apply_command(resp.commands[Len(resp.commands)], st)

(* variant: a fetch that fails falls back to the defaults of lines 29-30 *)
apply_latest_commands_defaults(resp, st) ==
    IF resp.kind # "ok"
    THEN [st EXCEPT !.auto_fan_enabled = TRUE, !.led_enabled = TRUE]
    ELSE IF resp.commands = <<>> THEN st
    ELSE apply_command(resp.commands[1], st)

apply_latest_commands(resp, st) ==
    IF resp.kind # "ok" THEN st
    ELSE IF resp.commands = <<>> THEN st
    ELSE apply_command(resp.commands[1], st)

Newest(resp) == IF resp.commands # <<>> THEN Head(resp.commands) ELSE NoCommand

(* requests.get returns or raises, line 105 *)
FetchCommands ==
    /\ pc = "fetch"
    /\ response' \in Responses
    /\ pc' = "apply"
    /\ UNCHANGED <<auto_fan_enabled, led_enabled, last_sent_temp, last_sent_humid,
                   last_sent_pm2_5, temp, humid, pm2_5, air_quality_digital,
                   gpio, posts, several, manual_fan, manual_over_auto, observed,
                   delivered, status, led_i, led_before,
                   dht_device, ser>>

(* the rest of apply_latest_commands, lines 106-134 *)
ApplyLatestCommands ==
    /\ pc = "apply"
    /\ LET st == apply_latest_commands(response, ControlState) IN
          /\ auto_fan_enabled' = st.auto_fan_enabled
          /\ led_enabled' = st.led_enabled
          /\ gpio' = st.gpio
    /\ manual_fan' = IF IsManualFan(Newest(response))
                     THEN (IF Newest(response).action = "on" THEN "on" ELSE "off")
                     ELSE "none"
    /\ manual_over_auto' = (IsManualFan(Newest(response)) /\ auto_fan_enabled)
    /\ several' = (Len(response.commands) > 1)
    /\ response' = NoResponse
    /\ pc' = "sensors"
    /\ UNCHANGED <<last_sent_temp, last_sent_humid, last_sent_pm2_5, temp, humid,
                   pm2_5, air_quality_digital, posts, observed, delivered,
                   status, led_i, led_before,
                   dht_device, ser>>

----------------------------------------------------------------------------
(* Sensor reads *)

(* the handles made at import, lines 49-55: both open, or both None when  *)
(* either constructor raised                                              *)
DeviceStates == {"open", "none"}

read_dht11(device) ==
    IF device = "none" THEN {<<None, None>>}
    ELSE {<<None, None>>}
         \cup {<<Some(t), Some(h)>> : t \in TempValues, h \in HumidValues}

(* variant: without the "if not ser" test and the try block, a read with *)
(* no port raises and returns nothing                                    *)
read_pms7003_unguarded(device) ==
    IF device = "none" THEN {}
    ELSE {None} \cup {Some(v) : v \in PmValues}

read_pms7003(device) ==
    IF device = "none" THEN {None}
    ELSE {None} \cup {Some(v) : v \in PmValues}

read_mq135 == GasValues

----------------------------------------------------------------------------
(* Telemetry: stages 2 and 3 of main_loop, with send_to_backend *)

(* variant: every present reading is sent (no comparison with last_sent) *)
value_changed_always(value, last_sent) == value # None

(* variant: the "is not None" test is missing *)
value_changed_no_none_test(value, last_sent) == last_sent # value

value_changed(value, last_sent) == value # None /\ last_sent # value

send_to_backend(sensor_type, value, result) ==
    [sensorType |-> sensor_type, value |-> value, result |-> result]

(* the outcomes of one "if changed: send; remember" block, lines 151-159 *)
report(sensor_type, value, last_sent) ==
    IF value_changed(value, last_sent)
    THEN {[calls |-> <<send_to_backend(sensor_type, value, r)>>, last_sent |-> value] :
             r \in PostResults}
    ELSE {[calls |-> <<>>, last_sent |-> last_sent]}

Created(calls) ==
    {calls[i].sensorType : i \in {j \in DOMAIN calls : calls[j].result = "created"}}

Present(t, h, p) ==
    (IF t # None THEN {"temperature"} ELSE {})
    \cup (IF h # None THEN {"humidity"} ELSE {})
    \cup (IF p # None THEN {"pm25"} ELSE {})

ReadAndReport ==
    /\ pc = "sensors"
    /\ \E th \in read_dht11(dht_device), pm \in read_pms7003(ser) :
          /\ temp' = th[1]
          /\ humid' = th[2]
          /\ pm2_5' = pm
          /\ \E t \in report("temperature", th[1], last_sent_temp),
                h \in report("humidity", th[2], last_sent_humid),
                p \in report("pm25", pm, last_sent_pm2_5) :
                /\ last_sent_temp' = t.last_sent
                /\ last_sent_humid' = h.last_sent
                /\ last_sent_pm2_5' = p.last_sent
                /\ posts' = t.calls \o h.calls \o p.calls
                /\ delivered' = delivered \cup Created(t.calls \o h.calls \o p.calls)
          /\ observed' = observed \cup Present(th[1], th[2], pm)
    /\ air_quality_digital' \in read_mq135
    /\ several' = FALSE
    /\ pc' = "fan"
    /\ UNCHANGED <<auto_fan_enabled, led_enabled, gpio, response, manual_fan,
                   manual_over_auto, status, led_i, led_before,
                   dht_device, ser>>

----------------------------------------------------------------------------
(* Automatic control: stage 4 of main_loop *)

(* variant: strict comparisons with the thresholds *)
fan_target_strict(t, p) ==
    \/ (t # None /\ t[1] > AUTO_FAN_TEMP_THRESHOLD)
    \/ (p # None /\ p[1] > AUTO_FAN_PM25_THRESHOLD)

fan_target(t, p) ==
    \/ (t # None /\ t[1] >= AUTO_FAN_TEMP_THRESHOLD)
    \/ (p # None /\ p[1] >= AUTO_FAN_PM25_THRESHOLD)

(* variant: the "if auto_fan_enabled" test is missing *)
auto_fan_unconditional(enabled, t, p, g) == control_fan(g, fan_target(t, p))

auto_fan(enabled, t, p, g) ==
    IF enabled THEN control_fan(g, fan_target(t, p)) ELSE g

AutoFanControl ==
    /\ pc = "fan"
    /\ gpio' = auto_fan(auto_fan_enabled, temp, pm2_5, gpio)
    /\ pc' = "led"
    /\ posts' = <<>>
    /\ UNCHANGED <<auto_fan_enabled, led_enabled, last_sent_temp, last_sent_humid,
                   last_sent_pm2_5, temp, humid, pm2_5, air_quality_digital,
                   response, several, manual_fan, manual_over_auto, observed,
                   delivered, status, led_i, led_before,
                   dht_device, ser>>

(* variant: "and" in place of "or" in the test for moderate *)
led_level_and(p, gas) ==
    IF p = None THEN "off"
    ELSE IF gas = 0 /\ p[1] < 35 THEN "good"
    ELSE IF gas = 0 /\ p[1] < 75 THEN "moderate"
    ELSE "bad"

led_level(p, gas) ==
    IF p = None THEN "off"
    ELSE IF gas = 0 /\ p[1] < 35 THEN "good"
    ELSE IF gas = 0 \/ p[1] < 75 THEN "moderate"
    ELSE "bad"

(* variant: the "else: set_led('off')" branch is missing *)
led_status_ignores_toggle(enabled, p, gas) == led_level(p, gas)

led_status(enabled, p, gas) ==
    IF enabled THEN led_level(p, gas) ELSE "off"

(* Stage 4, LED: one step per pin write of the set_led call.  The first   *)
(* step evaluates the argument and enters the call; the step that makes   *)
(* the last write also returns from it.                                   *)
LedControl ==
    /\ pc = "led"
    /\ status' = IF led_i = 0
                 THEN led_status(led_enabled, pm2_5, air_quality_digital)
                 ELSE status
    /\ led_before' = IF led_i = 0 THEN Lit ELSE led_before
    /\ gpio' = set_led_write(gpio, status', LedWrites[led_i + 1])
    /\ IF led_i + 1 = Len(LedWrites)
       THEN led_i' = 0 /\ pc' = "sleep"
       ELSE led_i' = led_i + 1 /\ pc' = "led"
    /\ UNCHANGED <<auto_fan_enabled, led_enabled, last_sent_temp, last_sent_humid,
                   last_sent_pm2_5, temp, humid, pm2_5, air_quality_digital,
                   response, posts, several, manual_fan, manual_over_auto,
                   observed, delivered, dht_device, ser>>

(* time.sleep(5), then the next iteration of while True begins; the        *)
(* history of the finished cycle is closed.                                *)
Sleep ==
    /\ pc = "sleep"
    /\ pc' = "fetch"
    /\ manual_fan' = "none"
    /\ manual_over_auto' = FALSE
    /\ status' = "none"
    /\ led_before' = {}
    /\ UNCHANGED <<auto_fan_enabled, led_enabled, last_sent_temp, last_sent_humid,
                   last_sent_pm2_5, temp, humid, pm2_5, air_quality_digital,
                   gpio, response, posts, several, observed, delivered, led_i,
                   dht_device, ser>>

----------------------------------------------------------------------------
(* Process lifecycle, lines 182-189 *)

LoopStages == {"fetch", "apply", "sensors", "fan", "led", "sleep"}

(* variant: the signal is held back until the top of the next cycle *)
KeyboardInterruptAtBoundary ==
    /\ pc = "fetch"
    /\ pc' = "interrupted"
    /\ response' = NoResponse
    /\ posts' = <<>>
    /\ several' = FALSE
    /\ UNCHANGED <<auto_fan_enabled, led_enabled, last_sent_temp, last_sent_humid,
                   last_sent_pm2_5, temp, humid, pm2_5, air_quality_digital,
                   gpio, manual_fan, manual_over_auto, observed, delivered,
                   status, led_i, led_before, dht_device, ser>>

(* Ctrl-C: the exception is raised wherever main_loop is, no handler of   *)
(* the loop catches it (KeyboardInterrupt is no Exception), lines 183-187 *)
KeyboardInterrupt ==
    /\ pc \in LoopStages
    /\ pc' = "interrupted"
    /\ response' = NoResponse
    /\ posts' = <<>>
    /\ several' = FALSE
    /\ UNCHANGED <<auto_fan_enabled, led_enabled, last_sent_temp, last_sent_humid,
                   last_sent_pm2_5, temp, humid, pm2_5, air_quality_digital,
                   gpio, manual_fan, manual_over_auto, observed, delivered,
                   status, led_i, led_before,
                   dht_device, ser>>

Cleanup ==
    /\ pc = "interrupted"
    /\ gpio' = [p \in DOMAIN gpio |-> LOW]
    /\ pc' = "exited"
    /\ UNCHANGED <<auto_fan_enabled, led_enabled, last_sent_temp, last_sent_humid,
                   last_sent_pm2_5, temp, humid, pm2_5, air_quality_digital,
                   response, posts, several, manual_fan, manual_over_auto,
                   observed, delivered, status, led_i, led_before,
                   dht_device, ser>>

----------------------------------------------------------------------------

(* State after setup_gpio, at the first test of while True *)
Init ==
    /\ pc = "fetch"
    /\ auto_fan_enabled = TRUE
    /\ led_enabled = TRUE
    /\ last_sent_temp = None
    /\ last_sent_humid = None
    /\ last_sent_pm2_5 = None
    /\ temp = None
    /\ humid = None
    /\ pm2_5 = None
    /\ air_quality_digital = 0
    /\ gpio = [p \in OutputPins |-> LOW]
    /\ response = NoResponse
    /\ posts = <<>>
    /\ several = FALSE
    /\ manual_fan = "none"
    /\ manual_over_auto = FALSE
    /\ observed = {}
    /\ delivered = {}
    /\ status = "none"
    /\ led_i = 0
    /\ led_before = {}
    /\ \E d \in DeviceStates : dht_device = d /\ ser = d

Next ==
    \/ FetchCommands
    \/ ApplyLatestCommands
    \/ ReadAndReport
    \/ AutoFanControl
    \/ LedControl
    \/ Sleep
    \/ KeyboardInterrupt
    \/ Cleanup

Spec == Init /\ [][Next]_vars

(* set_led as a function of the pin levels it finds: the LED stage entered *)
(* with every combination of output levels, toggle and readings            *)
InitSetLed ==
    /\ pc = "led"
    /\ auto_fan_enabled = TRUE
    /\ led_enabled \in BOOLEAN
    /\ last_sent_temp = None
    /\ last_sent_humid = None
    /\ last_sent_pm2_5 = None
    /\ temp = None
    /\ humid = None
    /\ pm2_5 \in read_pms7003("open")
    /\ air_quality_digital \in read_mq135
    /\ gpio \in [OutputPins -> {LOW, HIGH}]
    /\ response = NoResponse
    /\ posts = <<>>
    /\ several = FALSE
    /\ manual_fan = "none"
    /\ manual_over_auto = FALSE
    /\ observed = {}
    /\ delivered = {}
    /\ status = "none"
    /\ led_i = 0
    /\ led_before = {}
    /\ dht_device = "open"
    /\ ser = "open"

SetLedSpec == InitSetLed /\ [][LedControl]_vars

----------------------------------------------------------------------------
(* Properties *)

CallsFor(ps, m) == Cardinality({i \in DOMAIN ps : ps[i].sensorType = m})
FailedCallFor(ps, m) ==
    \E i \in DOMAIN ps : ps[i].sensorType = m /\ ps[i].result # "created"
SentValue(ps, m, v) ==
    \E i \in DOMAIN ps : ps[i].sensorType = m /\ ps[i].value = v
TelemetryStep == pc = "sensors" /\ pc' = "fan"

(* a value read again in the next cycle is sent again as long as no call  *)
(* for its metric has succeeded                                           *)
RetriedUntilDelivered(m, old, new, ps, dlv) ==
    (new # None /\ new = old /\ m \notin dlv) =>
        CallsFor(ps, m) = 1 /\ SentValue(ps, m, new)

(* C1: when the telemetry call for a freshly read value fails (a status   *)
(* other than 201, or a transport error), the last-sent value of that     *)
(* metric is not updated by the cycle, and the identical value read again *)
(* in the next cycle is sent again in that cycle.                         *)
C1_FailedCallKeepsLastSent ==
    [][TelemetryStep =>
          /\ FailedCallFor(posts', "temperature") => last_sent_temp' = last_sent_temp
          /\ FailedCallFor(posts', "humidity") => last_sent_humid' = last_sent_humid
          /\ FailedCallFor(posts', "pm25") => last_sent_pm2_5' = last_sent_pm2_5
          /\ RetriedUntilDelivered("temperature", temp, temp', posts', delivered)
          /\ RetriedUntilDelivered("humidity", humid, humid', posts', delivered)
          /\ RetriedUntilDelivered("pm25", pm2_5, pm2_5', posts', delivered)]_vars

(* C2: in a cycle whose newest directive is a manual fan directive,       *)
(* auto-fan is disabled and, from command application to the end of the   *)
(* cycle, the fan output equals (action == "on"), whatever the readings.  *)
C2_ManualFanOverrides ==
    (pc \in {"sensors", "fan", "led", "sleep"} /\ manual_fan # "none") =>
        /\ ~auto_fan_enabled
        /\ FanOn <=> (manual_fan = "on")

(* a cycle ended with the fan off by a manual directive that arrived with *)
(* auto-fan enabled, while both readings are at their thresholds          *)
C2_Witness ==
    /\ pc = "sleep"
    /\ manual_fan = "off"
    /\ manual_over_auto
    /\ temp = Some(300)
    /\ pm2_5 = Some(75)
    /\ ~FanOn
    /\ ~auto_fan_enabled

ChangeSuppression(m, old, new, ps, obs) ==
    /\ (new # None /\ new = old) => CallsFor(ps, m) = 0
    /\ (new # None /\ old # None /\ new # old) =>
          CallsFor(ps, m) = 1 /\ SentValue(ps, m, new)
    /\ (new # None /\ m \notin obs) =>
          CallsFor(ps, m) = 1 /\ SentValue(ps, m, new)

(* C3: for every metric, a present value equal to the one read in the     *)
(* previous cycle causes no telemetry call; a present value different     *)
(* from the present value of the previous cycle causes exactly one call,  *)
(* carrying the new value; and a metric read present for the first time   *)
(* causes exactly one call.                                               *)
C3_OneCallPerChange ==
    [][TelemetryStep =>
          /\ ChangeSuppression("temperature", temp, temp', posts', observed)
          /\ ChangeSuppression("humidity", humid, humid', posts', observed)
          /\ ChangeSuppression("pm25", pm2_5, pm2_5', posts', observed)]_vars

(* a telemetry stage that read all three metrics present, suppressed the  *)
(* temperature and reported the particulate value                         *)
C3_Witness ==
    /\ pc = "fan"
    /\ temp # None /\ humid # None /\ pm2_5 # None
    /\ CallsFor(posts, "temperature") = 0
    /\ CallsFor(posts, "pm25") = 1
    /\ "pm25" \in delivered

(* C4: a metric has a last-sent value only if it has been read at least   *)
(* once and a telemetry call for it has succeeded at least once.          *)
C4_LastSentWasDelivered ==
    /\ last_sent_temp # None => "temperature" \in (observed \cap delivered)
    /\ last_sent_humid # None => "humidity" \in (observed \cap delivered)
    /\ last_sent_pm2_5 # None => "pm25" \in (observed \cap delivered)

AbsentIsSkipped(m, old, new, last, last_after, ps) ==
    /\ new = None => (CallsFor(ps, m) = 0 /\ last_after = last)
    /\ (old = None /\ new # None /\ new = last) => CallsFor(ps, m) = 0
    /\ (old = None /\ new # None /\ last # None /\ new # last) =>
          CallsFor(ps, m) = 1 /\ SentValue(ps, m, new)

(* C5: in a cycle where a metric's reading is absent, no telemetry call   *)
(* is made for it and its last-sent value is unchanged; after an absent   *)
(* reading, the previously sent value read again is not sent, and a       *)
(* different value is sent.                                               *)
C5_AbsentReadingSkipped ==
    [][TelemetryStep =>
          /\ AbsentIsSkipped("temperature", temp, temp', last_sent_temp,
                             last_sent_temp', posts')
          /\ AbsentIsSkipped("humidity", humid, humid', last_sent_humid,
                             last_sent_humid', posts')
          /\ AbsentIsSkipped("pm25", pm2_5, pm2_5', last_sent_pm2_5,
                             last_sent_pm2_5', posts')]_vars

(* a telemetry stage in which the thermo-hygrometer read failed although  *)
(* both of its metrics had been sent before, and the particulate value    *)
(* was read present                                                       *)
C5_Witness ==
    /\ pc = "fan"
    /\ temp = None /\ humid = None
    /\ last_sent_temp # None /\ last_sent_humid # None
    /\ pm2_5 # None
    /\ CallsFor(posts, "temperature") = 0
    /\ CallsFor(posts, "humidity") = 0

(* C6: when the fetch returns several directives, command application     *)
(* leaves the toggles and the outputs as if the fetch had returned only   *)
(* the first directive.                                                   *)
C6_OnlyNewestApplied ==
    [][(pc = "apply" /\ pc' = "sensors" /\ Len(response.commands) > 1) =>
          ControlState' =
              apply_latest_commands(
                  [kind |-> "ok", commands |-> <<response.commands[1]>>],
                  ControlState)]_vars

(* a response of several directives was applied and its newest, a manual  *)
(* fan directive, took effect with the indicator still enabled            *)
C6_Witness ==
    /\ pc = "sensors"
    /\ several
    /\ manual_fan = "on"
    /\ manual_over_auto
    /\ FanOn
    /\ led_enabled

(* C7: after the fan stage of a cycle with auto-fan enabled, the fan is   *)
(* on iff the temperature is present and >= 30.0 or pm2.5 is present and  *)
(* >= 75.                                                                 *)
C7_AutoFanThresholds ==
    (pc \in {"led", "sleep"} /\ auto_fan_enabled) =>
        (FanOn <=> (\/ \E t \in 300..1000 : temp = <<t>>
                    \/ \E d \in 75..1000 : pm2_5 = <<d>>))

(* an auto-fan cycle that switched the fan on for pm2.5 = 75 alone, the   *)
(* thermo-hygrometer reading being absent                                 *)
C7_Witness ==
    /\ pc = "sleep"
    /\ auto_fan_enabled
    /\ temp = None
    /\ pm2_5 = Some(75)
    /\ FanOn

(* C8: in a cycle where auto-fan is disabled after command application    *)
(* and the newest directive is no manual fan directive, no step changes   *)
(* the fan output.                                                        *)
C8_FanFrozenWhenAutoOff ==
    [][(pc' \in LoopStages /\ ~auto_fan_enabled' /\ manual_fan' = "none") =>
          gpio'[FAN_PIN] = gpio[FAN_PIN]]_vars

(* a cycle ended with auto-fan disabled and the fan still on from an      *)
(* earlier cycle, both readings below their thresholds                    *)
C8_Witness ==
    /\ pc = "sleep"
    /\ ~auto_fan_enabled
    /\ manual_fan = "none"
    /\ FanOn
    /\ temp = Some(299)
    /\ pm2_5 = Some(34)

(* C9: at the end of a cycle with the indicator enabled, no LED is lit    *)
(* when pm2.5 is absent; otherwise exactly good is lit iff gas = 0 and    *)
(* pm2.5 < 35, exactly bad iff gas = 1 and pm2.5 >= 75, and exactly       *)
(* moderate in every other case.                                          *)
C9_IndicatorQuantization ==
    (pc = "sleep" /\ led_enabled) =>
        /\ pm2_5 = None => Lit = {}
        /\ pm2_5 # None =>
              LET good == air_quality_digital = 0 /\ pm2_5[1] < 35
                  bad == air_quality_digital = 1 /\ pm2_5[1] >= 75
              IN /\ (Lit = {"good"}) <=> good
                 /\ (Lit = {"bad"}) <=> bad
                 /\ (~good /\ ~bad) => Lit = {"moderate"}

(* a cycle ended on moderate for a gas alarm with pm2.5 below 35 *)
C9_Witness ==
    /\ pc = "sleep"
    /\ led_enabled
    /\ air_quality_digital = 1
    /\ pm2_5 = Some(34)
    /\ Lit = {"moderate"}

(* C10: the LED stage of a cycle with the indicator disabled leaves every *)
(* LED output low, whatever the readings, and once they are low they stay *)
(* low for as long as the indicator stays disabled.                       *)
C10_DisabledIndicatorStaysOff ==
    [][/\ (pc = "led" /\ pc' = "sleep" /\ ~led_enabled) => Lit' = {}
       /\ (~led_enabled /\ Lit = {} /\ ~led_enabled') => Lit' = {}]_vars

(* a cycle ended with the indicator disabled and dark although the        *)
(* readings are those of level bad                                        *)
C10_Witness ==
    /\ pc = "sleep"
    /\ ~led_enabled
    /\ air_quality_digital = 1
    /\ pm2_5 = Some(75)
    /\ Lit = {}

(* C11: after every completed set_led call, whatever the levels of the    *)
(* outputs were before it, at most one of good, moderate and bad is high: *)
(* exactly the named one for a level, none for 'off'; the fan output is   *)
(* not an indicator output (checked under SetLedSpec).                    *)
C11_OneIndicatorAfterSetLed ==
    (pc = "sleep" /\ status # "none") =>
        /\ Cardinality(Lit) <= 1
        /\ Lit = (IF status = "off" THEN {} ELSE {status})

(* a call set_led('moderate') returned that was entered with all three    *)
(* outputs high                                                           *)
C11_Witness ==
    /\ pc = "sleep"
    /\ status = "moderate"
    /\ led_before = {"good", "moderate", "bad"}
    /\ Lit = {"moderate"}

(* the stage-1 step of a cycle: apply_latest_commands returns to main_loop *)
CommandStep == pc = "apply" /\ pc' = "sensors"

FetchFailed(resp) == resp.kind \in {"bad_status", "network_error", "malformed"}

(* C12: a command fetch that fails (a status other than 200, a transport  *)
(* error, a malformed body) is handled like an empty directive list:      *)
(* command application leaves auto_fan_enabled, led_enabled and the       *)
(* outputs unchanged, and the only step other than the interrupt returns  *)
(* to the loop, which goes on to the sensor stage.                        *)
C12_FailedFetchIsEmpty ==
    [][(pc = "apply" /\ FetchFailed(response) /\ pc' # "interrupted") =>
          /\ pc' = "sensors"
          /\ ControlState' = ControlState
          /\ ControlState' =
                 apply_latest_commands([kind |-> "ok", commands |-> <<>>],
                                       ControlState)
          /\ manual_fan' = "none"]_vars

(* a malformed body has been received while both toggles are off and the  *)
(* fan is on                                                              *)
C12_Witness ==
    /\ pc = "apply"
    /\ response.kind = "malformed"
    /\ ~auto_fan_enabled
    /\ ~led_enabled
    /\ FanOn

(* C13 as stated: the interrupt takes effect only at a cycle boundary,    *)
(* that is during the sleep that ends a cycle or at the top of the next   *)
(* one, never after the cycle's fetch has returned and before its         *)
(* actuation is complete.                                                 *)
C13_InterruptOnlyAtBoundary ==
    [][pc' = "interrupted" => pc \in {"sleep", "fetch"}]_vars

(* what the process keeps across the interrupt *)
ProgramState ==
    <<auto_fan_enabled, led_enabled, last_sent_temp, last_sent_humid,
      last_sent_pm2_5, gpio, led_i, dht_device, ser>>

(* C13, amended: the interrupt is the only way the loop stops, and it     *)
(* takes effect wherever the cycle is, also mid-cycle: it can be taken in *)
(* every stage, the stages the cycle has not run yet are skipped (no      *)
(* toggle, last-sent value or output is written), and cleanup is the only *)
(* step that follows.                                                     *)
C13_InterruptAnywhere ==
    /\ [](pc \in LoopStages => ENABLED KeyboardInterrupt)
    /\ [][/\ (pc \in LoopStages /\ pc' \notin LoopStages) =>
                (pc' = "interrupted" /\ ProgramState' = ProgramState)
          /\ pc = "interrupted" => pc' = "exited"
          /\ pc # "exited"]_vars

(* the interrupt arrived inside set_led('bad'), after two of its three    *)
(* pin writes, in a cycle that had applied a manual fan directive: the    *)
(* indicator is left dark                                                 *)
C13_Witness ==
    /\ pc = "interrupted"
    /\ led_i = 2
    /\ status = "bad"
    /\ Lit = {}
    /\ manual_fan = "on"

(* C14: once the program has exited after an interrupt, the fan and all   *)
(* indicator outputs are neutralized and the device handles (the DHT11    *)
(* driver and the serial port) are released.                              *)
C14_ShutdownReleasesAll ==
    pc = "exited" =>
        /\ \A p \in DOMAIN gpio : gpio[p] = LOW
        /\ dht_device # "open"
        /\ ser # "open"

(* the stage that follows each stage of a cycle; the LED stage repeats    *)
(* until set_led has made its last write                                  *)
StageAfter ==
    [fetch |-> {"apply"}, apply |-> {"sensors"}, sensors |-> {"fan"},
     fan |-> {"led"}, led |-> {"led", "sleep"}, sleep |-> {"fetch"}]

StagesOrdered ==
    (pc \in LoopStages /\ pc' \in LoopStages /\ pc' # pc) => pc' \in StageAfter[pc]

BeforeDecision == pc \in {"fetch", "apply", "sensors"} /\ pc' \in LoopStages

(* C15 as stated: within every cycle command application, the sensor      *)
(* stage with its decisions, the actuation and the sleep follow each      *)
(* other in this order, and no output is written before the decision      *)
(* stage of the cycle.                                                    *)
C15_NoWriteBeforeDecision ==
    [][StagesOrdered /\ (BeforeDecision => gpio' = gpio)]_vars

(* C15, amended: the stages are ordered as stated; before the decision    *)
(* stage the only output written is the fan output, by a manual fan       *)
(* directive during command application, to the level the directive       *)
(* names; the fan stage writes the fan output only, the LED stage the     *)
(* indicator outputs only, and the sleep writes nothing.                  *)
C15_OrderedButManualFan ==
    [][/\ StagesOrdered
       /\ (BeforeDecision /\ gpio' # gpio) =>
              /\ pc = "apply"
              /\ IsManualFan(Newest(response))
              /\ FanOn' <=> (Newest(response).action = "on")
              /\ \A p \in LedPins : gpio'[p] = gpio[p]
       /\ (pc = "fan" /\ pc' = "led") => \A p \in LedPins : gpio'[p] = gpio[p]
       /\ (pc = "led" /\ pc' \in LoopStages) => gpio'[FAN_PIN] = gpio[FAN_PIN]
       /\ (pc = "sleep" /\ pc' = "fetch") => gpio' = gpio]_vars

(* command application has switched the fan on for a manual directive in  *)
(* a cycle that has not read its sensors yet, after a cycle in which      *)
(* every reading was absent                                               *)
C15_Witness ==
    /\ pc = "sensors"
    /\ manual_fan = "on"
    /\ FanOn
    /\ ~several
    /\ temp = None
    /\ pm2_5 = None
    /\ Lit = {}

(* a step of the cycle itself, as opposed to the interrupt *)
CycleStep ==
    \/ FetchCommands
    \/ ApplyLatestCommands
    \/ ReadAndReport
    \/ AutoFanControl
    \/ LedControl
    \/ Sleep

(* C16: no failure aborts the cycle.  Whatever the fetch returned, the    *)
(* sensors read and the telemetry calls answered, every stage of a        *)
(* started cycle can complete, and when it does the stage after it comes  *)
(* next (only the interrupt leads elsewhere); the argument of set_led is  *)
(* chosen once per cycle, in the LED stage, and the sleep is entered only *)
(* from the completed set_led call and is followed by the next fetch.     *)
C16_FailuresDoNotAbort ==
    /\ [](pc \in LoopStages => ENABLED CycleStep)
    /\ [](/\ pc \in {"fetch", "apply", "sensors", "fan"} => status = "none"
          /\ pc = "sleep" => (status # "none" /\ led_i = 0))
    /\ [][/\ (pc \in LoopStages /\ pc' # "interrupted") => pc' \in StageAfter[pc]
          /\ (status = "none" /\ status' # "none") => (pc = "led" /\ led_i = 0)
          /\ (status # "none" /\ status' # status) =>
                 (pc = "sleep" /\ pc' = "fetch" /\ status' = "none")]_vars

(* a cycle has set the indicator and reached its sleep although the       *)
(* thermo-hygrometer read failed and no telemetry call has succeeded yet  *)
C16_Witness ==
    /\ pc = "sleep"
    /\ status = "bad"
    /\ temp = None
    /\ humid = None
    /\ last_sent_temp # None
    /\ "pm25" \in observed
    /\ delivered = {}

(* the stage-1 step applies a directive: the fetch gave a non-empty list *)
AppliesDirective ==
    CommandStep /\ response.kind = "ok" /\ response.commands # <<>>

(* C17: applying a newest directive with target "led" sets led_enabled to *)
(* (action = "on") and leaves auto_fan_enabled and the fan output         *)
(* unchanged; one with target "autoFan" sets auto_fan_enabled to          *)
(* (action = "enable") and leaves led_enabled and the fan output          *)
(* unchanged; every other action string disables the toggle.              *)
C17_ToggleDirectives ==
    [][AppliesDirective =>
          LET d == response.commands[1] IN
          /\ d.target = "led" =>
                /\ led_enabled' = (d.action = "on")
                /\ auto_fan_enabled' = auto_fan_enabled
                /\ gpio'[FAN_PIN] = gpio[FAN_PIN]
          /\ d.target = "autoFan" =>
                /\ auto_fan_enabled' = (d.action = "enable")
                /\ led_enabled' = led_enabled
                /\ gpio'[FAN_PIN] = gpio[FAN_PIN]
          /\ (d.target = "led" /\ d.action # "on") => ~led_enabled'
          /\ (d.target = "autoFan" /\ d.action # "enable") =>
                ~auto_fan_enabled']_vars

(* the directive autoFan/"on", whose action is not "enable", is about to  *)
(* be applied while auto-fan is enabled, the indicator disabled and the   *)
(* fan on                                                                 *)
C17_Witness ==
    /\ pc = "apply"
    /\ response.kind = "ok"
    /\ Newest(response) = Directive("autoFan", "on", "none")
    /\ auto_fan_enabled
    /\ ~led_enabled
    /\ FanOn

IsIgnored(d) ==
    \/ d.target \notin {"led", "autoFan", "fan"}
    \/ d.target = "fan" /\ d.source # "user"

(* C18: a newest directive whose target is not led, autoFan or fan, or    *)
(* whose target is fan with a source that is absent or not "user", is a   *)
(* no-op: command application leaves auto_fan_enabled, led_enabled and    *)
(* the fan output unchanged.                                              *)
C18_OtherDirectivesIgnored ==
    [][(AppliesDirective /\ IsIgnored(response.commands[1])) =>
          /\ auto_fan_enabled' = auto_fan_enabled
          /\ led_enabled' = led_enabled
          /\ gpio'[FAN_PIN] = gpio[FAN_PIN]]_vars

(* a fan directive without a source is about to be applied while auto-fan *)
(* is enabled and the fan is off                                          *)
C18_Witness ==
    /\ pc = "apply"
    /\ response.kind = "ok"
    /\ Newest(response) = Directive("fan", "on", "none")
    /\ auto_fan_enabled
    /\ ~FanOn
    /\ temp # None

(* C19 as stated: at the granularity of pin writes, no two indicator      *)
(* outputs are high at the same moment.                                   *)
C19_NeverTwoHigh == Cardinality(Lit) <= 1

(* the place of a level among the pin writes of set_led *)
WritePosition(n) == CHOOSE i \in DOMAIN LedWrites : LedWrites[i] = n

(* C19, amended: two indicator outputs are high at the same moment only   *)
(* inside a set_led call that switches to a level listed before the lit   *)
(* one in LED_PINS (moderate to good, bad to good, bad to moderate), from *)
(* the write that sets the new output high until the write that sets the  *)
(* old one low, or until cleanup when the interrupt falls in between; in  *)
(* every other state at most one is high, and never three.                *)
C19_TwoHighOnlyMidSwitch ==
    \/ Cardinality(Lit) <= 1
    \/ /\ pc \in {"led", "interrupted"}
       /\ led_i > 0
       /\ \E old \in led_before :
             /\ old # status
             /\ Lit = {status, old}
             /\ WritePosition(status) <= led_i
             /\ led_i < WritePosition(old)

(* set_led('good') has written its first pin while the output for bad,    *)
(* lit by the cycle before, is still high                                 *)
C19_Witness ==
    /\ pc = "led"
    /\ led_i = 1
    /\ status = "good"
    /\ led_before = {"bad"}
    /\ Lit = {"good", "bad"}

(* the control state st after the fan stage of a cycle that read the      *)
(* particulate value p and no temperature                                 *)
AfterFanStage(st, p) ==
    [st EXCEPT !.gpio = auto_fan(st.auto_fan_enabled, None, p, st.gpio)]

(* C20: command application is idempotent under re-fetch.  When the       *)
(* response just applied is fetched again in the next cycle, whatever the *)
(* fan stage in between did, applying it again changes neither toggle nor *)
(* any output: the toggles are as the first application left them, and a  *)
(* manual fan directive keeps auto-fan disabled and drives the fan to the *)
(* level it already has.                                                  *)
C20_ReapplyChangesNothing ==
    [][AppliesDirective =>
          \A p \in read_pms7003("open") :
              LET first == ControlState'
                  later == AfterFanStage(first, p)
                  again == apply_latest_commands(response, later)
              IN /\ again = later
                 /\ again.auto_fan_enabled = first.auto_fan_enabled
                 /\ again.led_enabled = first.led_enabled
                 /\ IsManualFan(response.commands[1]) =>
                        /\ ~again.auto_fan_enabled
                        /\ again.gpio[FAN_PIN] = first.gpio[FAN_PIN]
                        /\ again.gpio[FAN_PIN] = HIGH
                              <=> (response.commands[1].action = "on")]_vars

(* the manual directive fan/"off" arrives while auto-fan is disabled and  *)
(* the fan is off although both readings of the cycle before are at their *)
(* thresholds                                                             *)
C20_Witness ==
    /\ pc = "apply"
    /\ response.kind = "ok"
    /\ Newest(response) = Directive("fan", "off", "user")
    /\ ~auto_fan_enabled
    /\ ~FanOn
    /\ temp = Some(300)
    /\ pm2_5 = Some(75)

====
